---- MODULE Spec2Model ----
(***************************************************************************)
(* A model of the logger facade (package logger) over zerolog: Logger      *)
(* handles, the context binding, the process-wide flags and global level,  *)
(* the six emission entry points at both surfaces, and ParseLevel.         *)
(*                                                                         *)
(* The zerolog calls the facade makes are modelled by what they do to the  *)
(* values the facade holds: a zerolog.Logger is the immutable value        *)
(* [level, context, w]; an Event is [on, fields, stack, w, done].          *)
(***************************************************************************)
EXTENDS Integers, Sequences, FiniteSets, TLC

\* ------------------------------------------------------------------ levels

DebugLevel == 0
InfoLevel == 1
WarnLevel == 2
ErrorLevel == 3
FatalLevel == 4
PanicLevel == 5

minAllowedLevel == DebugLevel
maxAllowedLevel == PanicLevel

\* The levels of the package: the six constants of type Level.
Levels == DebugLevel..PanicLevel

\* zerolog's LevelFieldMarshalFunc for the six severities.
LevelName(lvl) ==
    CASE lvl = DebugLevel -> "debug"
      [] lvl = InfoLevel -> "info"
      [] lvl = WarnLevel -> "warn"
      [] lvl = ErrorLevel -> "error"
      [] lvl = FatalLevel -> "fatal"
      [] lvl = PanicLevel -> "panic"
      [] OTHER -> "?"

\* The severity of the public function that was called.
Severity(fn) ==
    CASE fn = "Debug" -> DebugLevel
      [] fn = "Info" -> InfoLevel
      [] fn = "Warn" -> WarnLevel
      [] fn = "Error" -> ErrorLevel
      [] fn = "Fatal" -> FatalLevel
      [] fn = "Panic" -> PanicLevel

\* ------------------------------------------------------------------ bounds

MaxHandles == 3
FewHandles == 2
MaxCtxs == 3
MaxContextLen == 2

\* ------------------------------------------------------------------ state

VARIABLES
    handles,            \* the Logger objects allocated so far: handles[h] is h.l
    origin,             \* history: how each handle was made [op, parent, arg]
    ctxs,               \* the context.Context nodes: [parent, val]
    gLevel,             \* zerolog's global level
    glReq,              \* history: the argument of the latest SetGlobalLevel
    stacktraceEnabled,  \* atomic.Bool
    callerEnabled,      \* atomic.Bool
    written,            \* what the most recent emission call wrote, per sink
    last,               \* history: the most recent call and what it saw
    ctl,                \* control: running, panicking (unwinding) or exited
    gor,                \* goroutines of the concurrent specification
    parse               \* input and result of ParseLevel

vars == <<handles, origin, ctxs, gLevel, glReq, stacktraceEnabled, callerEnabled,
          written, last, ctl, gor, parse>>

\* ------------------------------------------------------- zerolog.Logger

\* zerolog.New(os.Stdout).Level(level).With().Timestamp().Logger()
ZlNew(level) ==
    [level |-> level, context |-> <<>>, w |-> "json", ts |-> TRUE]

\* The writers the output options install.
OptWriter(opt) ==
    CASE opt = "WithPlainText" -> "console"
      [] opt = "WriteToFile" -> "multi"

Options == {"WithPlainText", "WriteToFile"}

\* An Option's body: l.l = &(l.l.Output(writer).With().Logger()).
OptApply(zl, opt) == [zl EXCEPT !.w = OptWriter(opt)]

RECURSIVE OptApplyAll(_, _)
OptApplyAll(zl, opts) ==
    IF opts = <<>> THEN zl
    ELSE OptApplyAll(OptApply(zl, Head(opts)), Tail(opts))

\* Where a writer sends a record, and in which format.
Sinks(w) ==
    CASE w = "json" -> <<[sink |-> "stdout", format |-> "json"]>>
      [] w = "console" -> <<[sink |-> "stdout", format |-> "console"]>>
      [] w = "multi" -> <<[sink |-> "stdout", format |-> "console"],
                          [sink |-> "file", format |-> "json"]>>

\* Context.Fields / Event.Fields on a []interface{}: the list is read as
\* alternating keys and values, an odd list is completed with nil.
RECURSIVE Pairs(_)
Pairs(kvs) ==
    IF kvs = <<>> THEN <<>>
    ELSE IF Len(kvs) = 1 THEN << <<kvs[1], "nil">> >>
    ELSE << <<kvs[1], kvs[2]>> >> \o Pairs(SubSeq(kvs, 3, Len(kvs)))

\* Faulty variant: the new fields replace the attached ones.
ZlWith_Replace(zl, kvs) == [zl EXCEPT !.context = Pairs(kvs)]

\* l.l.With().Fields(kvs).Logger()
ZlWith(zl, kvs) == [zl EXCEPT !.context = zl.context \o Pairs(kvs)]

\* Faulty variant: the derived logger keeps its parent's level.
ZlLevel_Ignored(zl, level) == zl

\* l.l.Level(level)
ZlLevel(zl, level) == [zl EXCEPT !.level = level]

\* --------------------------------------------------------- zerolog.Event

\* Logger.should: the logger's own level and the global level both gate.
should(zl, lvl) == ~(lvl < zl.level \/ lvl < gLevel)

NilEvent == [on |-> FALSE, fields |-> <<>>, stack |-> FALSE, w |-> "json",
             ts |-> FALSE]

\* Logger.newEvent: nil when the level is gated, otherwise an event that
\* starts with the level field followed by the logger's context.
ZlEvent(zl, lvl) ==
    IF should(zl, lvl)
    THEN [on |-> TRUE,
          fields |-> << <<"level", LevelName(lvl)>> >> \o zl.context,
          stack |-> FALSE, w |-> zl.w, ts |-> zl.ts]
    ELSE NilEvent

EvStack(e) == IF e.on THEN [e EXCEPT !.stack = TRUE] ELSE e

Errors == {"nil", "plain", "withStack"}

\* pkgerrors.MarshalStack: nil unless the error carries a stack trace.
MarshalStack(err) == IF err = "withStack" THEN <<"frames">> ELSE <<>>

\* Event.Err: the stack field (when asked for and the error has one), then
\* the error field (none for a nil error).
EvErr(e, err) ==
    IF ~e.on THEN e
    ELSE LET st == IF e.stack /\ MarshalStack(err) # <<>>
                   THEN << <<"stack", "frames">> >> ELSE <<>>
             er == IF err = "nil" THEN <<>> ELSE << <<"error", err>> >>
         IN [e EXCEPT !.fields = e.fields \o st \o er]

EvFields(e, kvs) ==
    IF e.on THEN [e EXCEPT !.fields = e.fields \o Pairs(kvs)] ELSE e

\* Event.Caller(skip): skip 0 is the function that called Event.Caller; stk is
\* the call stack at that point, outermost frame first.  No field when the
\* stack is shallower than the skip.
EvCaller(e, skip, stk) ==
    IF e.on /\ Len(stk) - skip >= 1
    THEN [e EXCEPT !.fields = e.fields \o << <<"caller", stk[Len(stk) - skip]>> >>]
    ELSE e

callerSkip == 3

\* withFieldsAndCaller(event, kvs...), given the value it loads from
\* callerEnabled.
withFieldsAndCaller(e, kvs, stk, callerFlag) ==
    LET e1 == IF Len(kvs) > 0 THEN EvFields(e, kvs) ELSE e
    IN IF callerFlag THEN EvCaller(e1, callerSkip, stk) ELSE e1

\* Event.Msg: the timestamp hook, the message, then one write per sink.
EvMsg(e, msg) ==
    IF ~e.on THEN <<>>
    ELSE LET fs == e.fields
                   \o (IF e.ts THEN << <<"time", "now">> >> ELSE <<>>)
                   \o << <<"message", msg>> >>
             sk == Sinks(e.w)
         IN [i \in 1..Len(sk) |->
                [sink |-> sk[i].sink, format |-> sk[i].format, fields |-> fs]]

\* What happens after the call: Fatal's done exits, Panic's done panics; both
\* are run with "" by newEvent when the event is gated, with msg by Msg
\* otherwise.  The other severities return.
Done(sev, e, msg) ==
    CASE sev = FatalLevel -> [st |-> "exited", msg |-> ""]
      [] sev = PanicLevel -> [st |-> "panicking", msg |-> IF e.on THEN msg ELSE ""]
      [] OTHER -> [st |-> "running", msg |-> ""]

\* ------------------------------------------------------------- contexts

\* A node's val is what WithValue stored (<<>> for none); by is history: the
\* handle that was passed to ToContext (0 for none).
Background == [parent |-> 0, val |-> <<>>, by |-> 0]

\* init(): zerolog.DefaultContextLogger = New(ErrorLevel).l
DefaultContextLogger == ZlNew(ErrorLevel)

\* Faulty variant: only the node itself is looked at, not its parents.
Value_OwnOnly(c) == IF c = 0 THEN <<>> ELSE ctxs[c].val

\* ctx.Value(ctxKey{}): the nearest binding on the parent chain, <<>> if none.
RECURSIVE Value(_)
Value(c) ==
    IF c = 0 THEN <<>>
    ELSE IF ctxs[c].val # <<>> THEN ctxs[c].val
    ELSE Value(ctxs[c].parent)

\* zerolog.Ctx(ctx), which FromContext wraps in a new Logger.
Ctx(c) == IF Value(c) # <<>> THEN Value(c)[1] ELSE DefaultContextLogger

\* ------------------------------------------------------------ emission

\* The Go call stack inside withFieldsAndCaller: the user's frames, the
\* package-level function when the call came through it, the Logger method.
CallStack(user, entry) ==
    user \o (IF entry = "pkg" THEN <<"logger.Fn">> ELSE <<>>)
         \o <<"Logger.Fn", "withFieldsAndCaller">>

\* Faulty variant: Error asks for the stack whatever the flag says.
BuildEvent_StackAlways(zl, sev, user, entry, kvs, err, stackFlag, callerFlag) ==
    LET e0 == ZlEvent(zl, sev)
        e1 == IF sev = ErrorLevel THEN EvErr(EvStack(e0), err) ELSE e0
    IN withFieldsAndCaller(e1, kvs, CallStack(user, entry), callerFlag)

\* The event of one emission call just before Msg, given the values the call
\* loaded from the two flags.  Only Error consults the stack flag and
\* attaches the error.
BuildEvent(zl, sev, user, entry, kvs, err, stackFlag, callerFlag) ==
    LET e0 == ZlEvent(zl, sev)
        e1 == IF sev = ErrorLevel
              THEN EvErr(IF stackFlag THEN EvStack(e0) ELSE e0, err)
              ELSE e0
    IN withFieldsAndCaller(e1, kvs, CallStack(user, entry), callerFlag)

NoCall == [op |-> "none", fn |-> "", sev |-> 0, entry |-> "", h |-> 0,
           c |-> 0, user |-> <<>>, msg |-> "", kvs |-> <<>>, err |-> "nil"]

\* The driver makes one call at a time and looks at what it wrote before
\* the next (the tests' buffer, read and then Reset).
Idle == ctl.st = "running" /\ last.op = "none"

\* One whole emission call through logger value zl.
Emit(fn, zl, sev, entry, h, c, user, msg, kvs, err) ==
    /\ Idle
    /\ LET e == BuildEvent(zl, sev, user, entry, kvs, err,
                           stacktraceEnabled, callerEnabled)
       IN /\ written' = EvMsg(e, msg)
          /\ ctl' = Done(sev, e, msg)
    /\ last' = [op |-> "emit", fn |-> fn, sev |-> sev, entry |-> entry,
                h |-> h, c |-> c, user |-> user, msg |-> msg, kvs |-> kvs,
                err |-> err]
    /\ UNCHANGED <<handles, origin, ctxs, gLevel, glReq, stacktraceEnabled,
                   callerEnabled, gor, parse>>

\* The six Logger methods.
LoggerDebug(h, user, msg, kvs) ==
    Emit("Debug", handles[h], DebugLevel, "method", h, 0, user, msg, kvs, "nil")

LoggerInfo(h, user, msg, kvs) ==
    Emit("Info", handles[h], InfoLevel, "method", h, 0, user, msg, kvs, "nil")

LoggerWarn(h, user, msg, kvs) ==
    Emit("Warn", handles[h], WarnLevel, "method", h, 0, user, msg, kvs, "nil")

LoggerError(h, user, err, msg, kvs) ==
    Emit("Error", handles[h], ErrorLevel, "method", h, 0, user, msg, kvs, err)

\* Faulty variant: Fatal opens its event with l.l.Error().
LoggerFatal_AsError(h, user, msg, kvs) ==
    Emit("Fatal", handles[h], ErrorLevel, "method", h, 0, user, msg, kvs, "nil")

LoggerFatal(h, user, msg, kvs) ==
    Emit("Fatal", handles[h], FatalLevel, "method", h, 0, user, msg, kvs, "nil")

LoggerPanic(h, user, msg, kvs) ==
    Emit("Panic", handles[h], PanicLevel, "method", h, 0, user, msg, kvs, "nil")

\* The six package-level functions: FromContext(ctx).<Method>(...).
Debug(c, user, msg, kvs) ==
    Emit("Debug", Ctx(c), DebugLevel, "pkg", 0, c, user, msg, kvs, "nil")

Info(c, user, msg, kvs) ==
    Emit("Info", Ctx(c), InfoLevel, "pkg", 0, c, user, msg, kvs, "nil")

Warn(c, user, msg, kvs) ==
    Emit("Warn", Ctx(c), WarnLevel, "pkg", 0, c, user, msg, kvs, "nil")

Error(c, user, err, msg, kvs) ==
    Emit("Error", Ctx(c), ErrorLevel, "pkg", 0, c, user, msg, kvs, err)

Fatal(c, user, msg, kvs) ==
    Emit("Fatal", Ctx(c), FatalLevel, "pkg", 0, c, user, msg, kvs, "nil")

Panic(c, user, msg, kvs) ==
    Emit("Panic", Ctx(c), PanicLevel, "pkg", 0, c, user, msg, kvs, "nil")

\* An enclosing deferred recover() intercepts the unwind.
Recover ==
    /\ ctl.st = "panicking"
    /\ ctl' = [st |-> "running", msg |-> ""]
    /\ last' = [last EXCEPT !.op = "recover"]
    /\ UNCHANGED <<handles, origin, ctxs, gLevel, glReq, stacktraceEnabled,
                   callerEnabled, written, gor, parse>>

\* buf.Reset(): the output of the call has been read.
Reset ==
    /\ ctl.st = "running"
    /\ last.op # "none"
    /\ written' = <<>>
    /\ last' = NoCall
    /\ UNCHANGED <<handles, origin, ctxs, gLevel, glReq, stacktraceEnabled,
                   callerEnabled, ctl, gor, parse>>

\* ------------------------------------------------- handles and globals

Alloc(zl, op, parent, level, kvs) ==
    /\ Idle
    /\ Len(handles) < MaxHandles
    /\ handles' = Append(handles, zl)
    /\ origin' = Append(origin, [op |-> op, parent |-> parent, level |-> level,
                                 kvs |-> kvs])
    /\ UNCHANGED <<ctxs, gLevel, glReq, stacktraceEnabled, callerEnabled, written,
                   last, ctl, gor, parse>>

New(level, opts) ==
    Alloc(OptApplyAll(ZlNew(level), opts), "New", 0, level, <<>>)

Level(h, level) ==
    Alloc(ZlLevel(handles[h], level), "Level", h, level, <<>>)

\* Faulty variant: With stores the derived logger in the receiver.
With_InPlace(h, kvs) ==
    /\ Idle
    /\ Len(handles[h].context) + Len(Pairs(kvs)) <= MaxContextLen
    /\ handles' = [handles EXCEPT ![h] = ZlWith(handles[h], kvs)]
    /\ UNCHANGED <<origin, ctxs, gLevel, glReq, stacktraceEnabled,
                   callerEnabled, written, last, ctl, gor, parse>>

With(h, kvs) ==
    /\ Len(handles[h].context) + Len(Pairs(kvs)) <= MaxContextLen
    /\ Alloc(ZlWith(handles[h], kvs), "With", h, 0, kvs)

FromContext(c) ==
    Alloc(Ctx(c), "FromContext", c, 0, <<>>)

\* An Option called on a Logger: it replaces that Logger's l in place.
ApplyOption(h, opt) ==
    /\ Idle
    /\ handles' = [handles EXCEPT ![h] = OptApply(handles[h], opt)]
    /\ UNCHANGED <<origin, ctxs, gLevel, glReq, stacktraceEnabled, callerEnabled,
                   written, last, ctl, gor, parse>>

\* Logger.WithContext(ctx): a child node holding the logger value.  (zerolog
\* declines to store a logger at its Disabled level, which is none of Levels.)
ToContext(c, h) ==
    /\ Idle
    /\ Len(ctxs) < MaxCtxs
    /\ ctxs' = Append(ctxs, [parent |-> c, val |-> <<handles[h]>>, by |-> h])
    /\ UNCHANGED <<handles, origin, gLevel, glReq, stacktraceEnabled, callerEnabled,
                   written, last, ctl, gor, parse>>

\* A child context that binds no Logger (context.WithValue under another
\* key, WithCancel, ...).
ChildContext(c) ==
    /\ Idle
    /\ Len(ctxs) < MaxCtxs
    /\ ctxs' = Append(ctxs, [parent |-> c, val |-> <<>>, by |-> 0])
    /\ UNCHANGED <<handles, origin, gLevel, glReq, stacktraceEnabled, callerEnabled,
                   written, last, ctl, gor, parse>>

\* Faulty variant: the level never reaches zerolog.
SetGlobalLevel_Dropped(level) ==
    /\ Idle
    /\ glReq' = <<level>>
    /\ UNCHANGED <<handles, origin, ctxs, gLevel, stacktraceEnabled,
                   callerEnabled, written, last, ctl, gor, parse>>

SetGlobalLevel(level) ==
    /\ Idle
    /\ gLevel' = level
    /\ glReq' = <<level>>
    /\ UNCHANGED <<handles, origin, ctxs, stacktraceEnabled, callerEnabled,
                   written, last, ctl, gor, parse>>

\* History kept with each in-flight call of the concurrent specification:
\* the values a flag held while the call ran.
Seen(g, flag, v) ==
    [i \in 1..Len(g) |->
        IF g[i].pc = "idle" THEN g[i]
        ELSE [g[i] EXCEPT ![flag] = g[i][flag] \cup {v}]]

SetStacktraceEnabled(enabled) ==
    /\ Idle
    /\ stacktraceEnabled' = enabled
    /\ gor' = Seen(gor, "stackSeen", enabled)
    /\ UNCHANGED <<handles, origin, ctxs, gLevel, glReq, callerEnabled, written,
                   last, ctl, parse>>

SetCallerEnabled(enabled) ==
    /\ Idle
    /\ callerEnabled' = enabled
    /\ gor' = Seen(gor, "callerSeen", enabled)
    /\ UNCHANGED <<handles, origin, ctxs, gLevel, glReq, stacktraceEnabled, written,
                   last, ctl, parse>>

\* ------------------------------------------------------------- initial

Init ==
    /\ handles = <<>>
    /\ origin = <<>>
    /\ ctxs = <<Background>>
    /\ gLevel = DebugLevel
    /\ glReq = <<>>
    /\ stacktraceEnabled = FALSE
    /\ callerEnabled = FALSE
    /\ written = <<>>
    /\ last = NoCall
    /\ ctl = [st |-> "running", msg |-> ""]
    /\ gor = <<>>
    /\ parse = <<>>

H == 1..Len(handles)
C == 1..Len(ctxs)

\* The specifications that vary levels or contexts keep fewer handles.
Few == Len(handles) < FewHandles

\* No context has been derived from the background context yet.
Unbound == Len(ctxs) = 1

\* -------------------------------------------- specification: level gating
\* New, Level and SetGlobalLevel over all six levels, the six severities
\* through the Logger methods and, through the package-level functions, on
\* the unbound context and on one context that binds a handle.

MainStack == <<"runtime.main", "main.main">>

NextLevels ==
    \/ \E l \in Levels : Few /\ New(l, <<>>)
    \/ \E h \in H, l \in Levels : Few /\ Level(h, l)
    \/ \E l \in Levels : SetGlobalLevel(l)
    \/ \E h \in H : Unbound /\ ToContext(1, h)
    \/ \E h \in H : LoggerDebug(h, MainStack, "m", <<>>)
    \/ \E h \in H : LoggerInfo(h, MainStack, "m", <<>>)
    \/ \E h \in H : LoggerWarn(h, MainStack, "m", <<>>)
    \/ \E h \in H : LoggerError(h, MainStack, "plain", "m", <<>>)
    \/ \E h \in H : LoggerFatal(h, MainStack, "m", <<>>)
    \/ \E h \in H : LoggerPanic(h, MainStack, "m", <<>>)
    \/ \E c \in C : Debug(c, MainStack, "m", <<>>)
    \/ \E c \in C : Info(c, MainStack, "m", <<>>)
    \/ \E c \in C : Warn(c, MainStack, "m", <<>>)
    \/ \E c \in C : Error(c, MainStack, "plain", "m", <<>>)
    \/ \E c \in C : Fatal(c, MainStack, "m", <<>>)
    \/ \E c \in C : Panic(c, MainStack, "m", <<>>)
    \/ Recover
    \/ Reset

SpecLevels == Init /\ [][NextLevels]_vars

\* ------------------------------------------ specification: context binding
\* Loggers of two levels and two destinations, with or without a field,
\* bound along context chains; the package-level functions and FromContext
\* on every context; the global level below and above the default's level.

CtxGlobals == {DebugLevel, FatalLevel}

NextContext ==
    \/ Few /\ New(InfoLevel, <<>>)
    \/ Few /\ New(FatalLevel, <<"WriteToFile">>)
    \/ \E h \in H : Few /\ With(h, <<"a", "1">>)
    \/ \E c \in C, h \in H : ToContext(c, h)
    \/ \E c \in C : ChildContext(c)
    \/ \E c \in C : Few /\ FromContext(c)
    \/ \E l \in CtxGlobals : SetGlobalLevel(l)
    \/ \E c \in C : Debug(c, MainStack, "m", <<>>)
    \/ \E c \in C : Info(c, MainStack, "m", <<>>)
    \/ \E c \in C : Warn(c, MainStack, "m", <<"b", "2">>)
    \/ \E c \in C : Error(c, MainStack, "plain", "m", <<>>)
    \/ Reset

SpecContext == Init /\ [][NextContext]_vars

\* ------------------------------------- specification: deriving handles
\* New with and without output options, With and Level on every handle,
\* an Option called on every handle, Info through every handle.

HandleLevels == {DebugLevel, WarnLevel}
HandleOpts == {<<>>, <<"WithPlainText">>, <<"WithPlainText", "WriteToFile">>}
HandleKvs == {<<"a", "1">>, <<"b", "2">>}

NextHandles ==
    \/ \E l \in HandleLevels, o \in HandleOpts : New(l, o)
    \/ \E h \in H, kvs \in HandleKvs : With(h, kvs)
    \/ \E h \in H, l \in HandleLevels : Level(h, l)
    \/ \E h \in H, opt \in Options : ApplyOption(h, opt)
    \/ \E h \in H, kvs \in {<<>>, <<"c", "3">>} :
          LoggerInfo(h, MainStack, "m", kvs)
    \/ Reset

SpecHandles == Init /\ [][NextHandles]_vars

\* ----------------------------------------- specification: annotations
\* The two flags set and cleared in any order; every entry point, called
\* from main and from a function main calls; errors with and without a stack.

HandlerStack == <<"runtime.main", "main.main", "main.handler">>
UserStacks == {MainStack, HandlerStack}
AnnotKvs == {<<>>, <<"k", "v">>}

NextAnnot ==
    \/ \E l \in {DebugLevel, ErrorLevel} : Few /\ New(l, <<>>)
    \/ \E h \in H : ToContext(1, h)
    \/ \E b \in BOOLEAN : SetStacktraceEnabled(b)
    \/ \E b \in BOOLEAN : SetCallerEnabled(b)
    \/ \E h \in H, u \in UserStacks, kvs \in AnnotKvs :
          \/ LoggerDebug(h, u, "m", kvs)
          \/ LoggerInfo(h, u, "m", kvs)
          \/ LoggerWarn(h, u, "m", kvs)
          \/ \E err \in Errors : LoggerError(h, u, err, "m", kvs)
          \/ LoggerFatal(h, u, "m", kvs)
          \/ LoggerPanic(h, u, "m", kvs)
    \/ \E c \in C, u \in UserStacks, kvs \in AnnotKvs :
          \/ Debug(c, u, "m", kvs)
          \/ Info(c, u, "m", kvs)
          \/ Warn(c, u, "m", kvs)
          \/ \E err \in Errors : Error(c, u, err, "m", kvs)
          \/ Fatal(c, u, "m", kvs)
          \/ Panic(c, u, "m", kvs)
    \/ Recover
    \/ Reset

SpecAnnot == Init /\ [][NextAnnot]_vars

\* -------------------------------------- specification: concurrent calls
\* Goroutines run emission calls step by step: the event is opened, Error
\* loads stacktraceEnabled and attaches the error, withFieldsAndCaller loads
\* callerEnabled, Msg writes.  Stores to the two flags interleave freely.

MaxGoroutines == 2

IdleGo == [pc |-> "idle", fn |-> "", h |-> 0, ev |-> NilEvent,
           stackRead |-> <<>>, callerRead |-> <<>>,
           stackSeen |-> {}, callerSeen |-> {}, out |-> <<>>]

RaceFns == {"Info", "Error"}

\* l.l.Info() / l.l.Error(): the call begins and opens its event.
GoCall(g, fn, h) ==
    /\ gor[g].pc = "idle"
    /\ gor' = [gor EXCEPT ![g] =
                 [pc |-> IF fn = "Error" THEN "stack" ELSE "caller",
                  fn |-> fn, h |-> h,
                  ev |-> ZlEvent(handles[h], Severity(fn)),
                  stackRead |-> <<>>, callerRead |-> <<>>,
                  stackSeen |-> {stacktraceEnabled},
                  callerSeen |-> {callerEnabled}, out |-> <<>>]]
    /\ UNCHANGED <<handles, origin, ctxs, gLevel, glReq, stacktraceEnabled,
                   callerEnabled, written, last, ctl, parse>>

\* Error: if stacktraceEnabled.Load() { event.Stack() }; event.Err(err)
GoLoadStacktrace(g) ==
    /\ gor[g].pc = "stack"
    /\ LET v == stacktraceEnabled
           e == gor[g].ev
       IN gor' = [gor EXCEPT ![g].stackRead = <<v>>,
                             ![g].ev = EvErr(IF v THEN EvStack(e) ELSE e,
                                             "withStack"),
                             ![g].pc = "caller"]
    /\ UNCHANGED <<handles, origin, ctxs, gLevel, glReq, stacktraceEnabled,
                   callerEnabled, written, last, ctl, parse>>

\* Faulty variant: withFieldsAndCaller loads the stack-trace flag.
GoLoadCaller_WrongFlag(g) ==
    /\ gor[g].pc = "caller"
    /\ LET v == stacktraceEnabled
       IN gor' = [gor EXCEPT ![g].callerRead = <<v>>,
                             ![g].ev = withFieldsAndCaller(
                                          gor[g].ev, <<>>,
                                          CallStack(MainStack, "method"), v),
                             ![g].pc = "msg"]
    /\ UNCHANGED <<handles, origin, ctxs, gLevel, glReq, stacktraceEnabled,
                   callerEnabled, written, last, ctl, parse>>

\* withFieldsAndCaller: if callerEnabled.Load() { event.Caller(3) }
GoLoadCaller(g) ==
    /\ gor[g].pc = "caller"
    /\ LET v == callerEnabled
       IN gor' = [gor EXCEPT ![g].callerRead = <<v>>,
                             ![g].ev = withFieldsAndCaller(
                                          gor[g].ev, <<>>,
                                          CallStack(MainStack, "method"), v),
                             ![g].pc = "msg"]
    /\ UNCHANGED <<handles, origin, ctxs, gLevel, glReq, stacktraceEnabled,
                   callerEnabled, written, last, ctl, parse>>

\* event.Msg(msg)
GoMsg(g) ==
    /\ gor[g].pc = "msg"
    /\ gor' = [gor EXCEPT ![g].out = EvMsg(gor[g].ev, "m"),
                          ![g].pc = "returned"]
    /\ UNCHANGED <<handles, origin, ctxs, gLevel, glReq, stacktraceEnabled,
                   callerEnabled, written, last, ctl, parse>>

\* The goroutine is free for its next call.
GoReturn(g) ==
    /\ gor[g].pc = "returned"
    /\ gor' = [gor EXCEPT ![g] = IdleGo]
    /\ UNCHANGED <<handles, origin, ctxs, gLevel, glReq, stacktraceEnabled,
                   callerEnabled, written, last, ctl, parse>>

\* Two handles exist, one of them derived from the other; the flags start
\* in any state.
InitRace ==
    /\ handles = <<ZlNew(DebugLevel), ZlWith(ZlNew(DebugLevel), <<"a", "1">>)>>
    /\ origin = <<[op |-> "New", parent |-> 0, level |-> DebugLevel, kvs |-> <<>>],
                  [op |-> "With", parent |-> 1, level |-> 0, kvs |-> <<"a", "1">>]>>
    /\ ctxs = <<Background>>
    /\ gLevel = DebugLevel
    /\ glReq = <<>>
    /\ stacktraceEnabled \in BOOLEAN
    /\ callerEnabled \in BOOLEAN
    /\ written = <<>>
    /\ last = NoCall
    /\ ctl = [st |-> "running", msg |-> ""]
    /\ gor = [g \in 1..MaxGoroutines |-> IdleGo]
    /\ parse = <<>>

G == 1..Len(gor)

\* Goroutines log through the handles in turn: with more goroutines than
\* handles some share one.
HandleOf(g) == ((g - 1) % Len(handles)) + 1

NextRace ==
    \/ \E b \in BOOLEAN : SetStacktraceEnabled(b)
    \/ \E b \in BOOLEAN : SetCallerEnabled(b)
    \/ \E g \in G, fn \in RaceFns : GoCall(g, fn, HandleOf(g))
    \/ \E g \in G : GoLoadStacktrace(g)
    \/ \E g \in G : GoLoadCaller(g)
    \/ \E g \in G : GoMsg(g)
    \/ \E g \in G : GoReturn(g)

SpecRace == InitRace /\ [][NextRace]_vars

\* ------------------------------------------------------- ParseLevel
\* Strings are sequences of characters.

Lower(ch) ==
    CASE ch = "A" -> "a" [] ch = "B" -> "b" [] ch = "C" -> "c"
      [] ch = "D" -> "d" [] ch = "E" -> "e" [] ch = "F" -> "f"
      [] ch = "G" -> "g" [] ch = "I" -> "i" [] ch = "L" -> "l"
      [] ch = "N" -> "n" [] ch = "O" -> "o" [] ch = "P" -> "p"
      [] ch = "R" -> "r" [] ch = "S" -> "s" [] ch = "T" -> "t"
      [] ch = "U" -> "u" [] ch = "W" -> "w"
      [] OTHER -> ch

\* strings.EqualFold on the characters in use.
EqualFold(s, t) ==
    /\ Len(s) = Len(t)
    /\ \A i \in 1..Len(s) : Lower(s[i]) = Lower(t[i])

\* zerolog's Level.String for the levels ParseLevel compares with, in the
\* order it compares them; NoLevel's name is the empty string.
ZlLevelNames ==
    << [name |-> <<"t", "r", "a", "c", "e">>, level |-> -1],
       [name |-> <<"d", "e", "b", "u", "g">>, level |-> 0],
       [name |-> <<"i", "n", "f", "o">>, level |-> 1],
       [name |-> <<"w", "a", "r", "n">>, level |-> 2],
       [name |-> <<"e", "r", "r", "o", "r">>, level |-> 3],
       [name |-> <<"f", "a", "t", "a", "l">>, level |-> 4],
       [name |-> <<"p", "a", "n", "i", "c">>, level |-> 5],
       [name |-> <<"d", "i", "s", "a", "b", "l", "e", "d">>, level |-> 7],
       [name |-> <<>>, level |-> 6] >>

Digits == <<"0", "1", "2", "3", "4", "5", "6", "7", "8", "9">>
IsDigit(ch) == \E d \in 1..10 : Digits[d] = ch
DigitVal(ch) == (CHOOSE d \in 1..10 : Digits[d] = ch) - 1

RECURSIVE DigitsVal(_, _)
DigitsVal(s, acc) ==
    IF s = <<>> THEN acc ELSE DigitsVal(Tail(s), 10 * acc + DigitVal(Head(s)))

\* strconv.Atoi: an optional sign, then one digit or more.
Atoi(s) ==
    LET signed == s # <<>> /\ Head(s) \in {"+", "-"}
        body == IF signed THEN Tail(s) ELSE s
    IN IF body = <<>> \/ \E i \in 1..Len(body) : ~IsDigit(body[i])
       THEN [ok |-> FALSE, val |-> 0]
       ELSE [ok |-> TRUE,
             val |-> IF signed /\ Head(s) = "-" THEN 0 - DigitsVal(body, 0)
                     ELSE DigitsVal(body, 0)]

\* zerolog.ParseLevel: a level name in any case, else an int8 in decimal.
ZlParseLevel(s) ==
    LET hits == {i \in 1..Len(ZlLevelNames) : EqualFold(s, ZlLevelNames[i].name)}
        n == Atoi(s)
    IN IF hits # {}
       THEN [level |-> ZlLevelNames[CHOOSE i \in hits : \A j \in hits : i <= j].level,
             err |-> ""]
       ELSE IF ~n.ok THEN [level |-> 6, err |-> "Unknown Level String"]
       ELSE IF n.val > 127 \/ n.val < -128
            THEN [level |-> 6, err |-> "Out-Of-Bounds Level"]
       ELSE [level |-> n.val, err |-> ""]

\* Faulty variant: a parsed level is returned as it is, unclamped.
ParseLevel_NoClamp(levelStr) ==
    LET z == ZlParseLevel(levelStr) IN
    IF z.err # ""
    THEN [level |-> ErrorLevel,
          err |-> <<[text |-> "cannot parse log level", str |-> levelStr,
                     wraps |-> z.err]>>]
    ELSE [level |-> z.level, err |-> <<>>]

\* ParseLevel(levelStr): the level and the error (<<>> for nil).
ParseLevel(levelStr) ==
    LET z == ZlParseLevel(levelStr) IN
    IF z.err # ""
    THEN [level |-> ErrorLevel,
          err |-> <<[text |-> "cannot parse log level", str |-> levelStr,
                     wraps |-> z.err]>>]
    ELSE IF z.level < minAllowedLevel THEN [level |-> minAllowedLevel, err |-> <<>>]
    ELSE IF z.level > maxAllowedLevel THEN [level |-> maxAllowedLevel, err |-> <<>>]
    ELSE [level |-> z.level, err |-> <<>>]

\* ------------------------------------------ specification: ParseLevel
\* Inputs: the level names in several spellings, every decimal integer up to
\* MaxNum in absolute value (past int8 on both sides), signed and padded
\* forms, and strings that are neither.

MaxNum == 130

RECURSIVE NatStr(_)
NatStr(n) ==
    IF n < 10 THEN <<Digits[n + 1]>>
    ELSE NatStr(n \div 10) \o <<Digits[(n % 10) + 1]>>

IntStr(i) == IF i < 0 THEN <<"-">> \o NatStr(0 - i) ELSE NatStr(i)

ParseInputs ==
    {ZlLevelNames[i].name : i \in 1..Len(ZlLevelNames)}
    \cup {IntStr(i) : i \in (0 - MaxNum)..MaxNum}
    \cup { <<"I", "N", "F", "O">>, <<"W", "a", "r", "n">>, <<"T", "R", "A", "C", "E">>,
           <<"D", "i", "s", "a", "b", "l", "e", "d">>, <<"P", "A", "N", "I", "C">>,
           <<"w", "a", "r", "n", "i", "n", "g">>, <<"i", "n", "f">>,
           <<"v", "e", "r", "b", "o", "s", "e">>, <<" ">>, <<"-">>, <<"+", "4">>,
           <<"0", "0", "5">>, <<"1", "x">>, <<"-", "-", "1">>, <<"e", "r", "r">> }

InitParse ==
    /\ handles = <<>>
    /\ origin = <<>>
    /\ ctxs = <<Background>>
    /\ gLevel = DebugLevel
    /\ glReq = <<>>
    /\ stacktraceEnabled = FALSE
    /\ callerEnabled = FALSE
    /\ written = <<>>
    /\ last = NoCall
    /\ ctl = [st |-> "running", msg |-> ""]
    /\ gor = <<>>
    /\ \E s \in ParseInputs : parse = [in |-> s, out |-> <<>>]

CallParseLevel ==
    /\ parse.out = <<>>
    /\ parse' = [parse EXCEPT !.out = <<ParseLevel(parse.in)>>]
    /\ UNCHANGED <<handles, origin, ctxs, gLevel, glReq, stacktraceEnabled,
                   callerEnabled, written, last, ctl, gor>>

SpecParse == InitParse /\ [][CallParseLevel]_vars

\* ------------------------------------------------ reading a finished call

Called == last.op = "emit"
Wrote == written # <<>>

\* The minimum level a handle was given: the argument of the New or Level
\* call that made it, inherited through With.
RECURSIVE ConfiguredLevel(_)
ConfiguredLevel(h) ==
    IF origin[h].op \in {"New", "Level"} THEN origin[h].level
    ELSE IF origin[h].op = "With" THEN ConfiguredLevel(origin[h].parent)
    ELSE handles[h].level

\* The minimum level of the Logger the call went through.
CallLevel ==
    IF last.h # 0 THEN ConfiguredLevel(last.h) ELSE Ctx(last.c).level

\* -------------------------------------------------------------- C1

\* C1 as stated: a call of severity S through a Logger of minimum level L
\* (set by New or Level) writes nothing when S < L and writes a record
\* when S >= L.
C1_AsStated ==
    (Called /\ last.h # 0) =>
        /\ (Severity(last.fn) < ConfiguredLevel(last.h) => ~Wrote)
        /\ (Severity(last.fn) >= ConfiguredLevel(last.h) => Wrote)

\* C1 amended: S < L writes nothing; S >= L writes a record provided S is
\* also at or above the global level.
C1_LevelGate ==
    (Called /\ last.h # 0) =>
        /\ (Severity(last.fn) < ConfiguredLevel(last.h) => ~Wrote)
        /\ (Severity(last.fn) >= ConfiguredLevel(last.h)
              /\ Severity(last.fn) >= gLevel => Wrote)

\* A Warn through a handle made by Level(WarnLevel) wrote its record, and
\* the handle's parent had another level.
C1_Witness ==
    /\ Called /\ last.h # 0 /\ last.fn = "Warn" /\ Wrote
    /\ origin[last.h].op = "Level" /\ origin[last.h].level = WarnLevel
    /\ ConfiguredLevel(origin[last.h].parent) = PanicLevel

\* -------------------------------------------------------------- C8

\* C8: a call of severity S through a Logger of level L writes a record
\* exactly when S >= L and S >= G, G the level most recently passed to
\* SetGlobalLevel; before any SetGlobalLevel call only L decides.  For
\* handles and for the default Logger of an unbound context alike.
C8_GlobalFloor ==
    Called =>
        (Wrote <=> /\ Severity(last.fn) >= CallLevel
                   /\ (glReq = <<>> \/ Severity(last.fn) >= glReq[1]))

\* An Info through a Debug-level handle was dropped by a global level Warn.
C8_Witness ==
    /\ Called /\ last.h # 0 /\ last.fn = "Info" /\ ~Wrote
    /\ ConfiguredLevel(last.h) = DebugLevel /\ glReq = <<WarnLevel>>

\* -------------------------------------------------------------- C9

\* C9 as stated: Panic writes its record and unwinds with msg, recoverably;
\* Fatal writes its record and terminates; at every Logger level and global
\* level, through both surfaces.
C9_AsStated ==
    Called =>
        /\ (last.fn = "Panic" =>
               Wrote /\ ctl = [st |-> "panicking", msg |-> last.msg]
                     /\ ENABLED Recover)
        /\ (last.fn = "Fatal" => Wrote /\ ctl.st = "exited")

\* C9 amended: Panic as stated; Fatal always terminates, and has written its
\* record before that exactly when Fatal passes the Logger's level and the
\* global level.
C9_NoReturn ==
    Called =>
        /\ (last.fn = "Panic" =>
               Wrote /\ ctl = [st |-> "panicking", msg |-> last.msg]
                     /\ ENABLED Recover)
        /\ (last.fn = "Fatal" =>
               /\ ctl.st = "exited"
               /\ (Wrote <=> CallLevel <= FatalLevel /\ gLevel <= FatalLevel))

\* A package-level Fatal under global level Panic: the process exited and
\* nothing was written.
C9_Witness ==
    /\ Called /\ last.fn = "Fatal" /\ last.entry = "pkg"
    /\ gLevel = PanicLevel /\ ctl.st = "exited" /\ ~Wrote

\* -------------------------------------------------------------- C2

\* The context nodes on c's parent chain, c included.
RECURSIVE Chain(_)
Chain(c) == IF c = 0 THEN {} ELSE {c} \cup Chain(ctxs[c].parent)

\* Those that a ToContext call made.
BoundOn(c) == {n \in Chain(c) : ctxs[n].by # 0}

\* The nearest of them: a child is always made after its parent.
Nearest(c) == CHOOSE n \in BoundOn(c) : \A m \in BoundOn(c) : m <= n

\* The Logger that ToContext call was given.
BoundLogger(c) == handles[ctxs[Nearest(c)].by]

SinksOf(w) == [i \in 1..Len(w) |-> [sink |-> w[i].sink, format |-> w[i].format]]

\* The finished call emitted as Logger value zl emits: gated by zl's level
\* (and the global level), zl's attached fields right after the level field
\* and before the call's own, zl's destination.
EmitsAs(zl) ==
    /\ Wrote <=> (Severity(last.fn) >= zl.level /\ Severity(last.fn) >= gLevel)
    /\ Wrote =>
         /\ SinksOf(written) = Sinks(zl.w)
         /\ \A i \in 1..Len(written) :
              /\ SubSeq(written[i].fields, 2, 1 + Len(zl.context)) = zl.context
              /\ \A j \in 1..Len(written[i].fields) :
                    written[i].fields[j][1] = "a" => j <= 1 + Len(zl.context)

\* What FromContext returned, whenever it was called, is what it returns now.
FromContextStable ==
    \A h \in H :
        origin[h].op = "FromContext" =>
            IF BoundOn(origin[h].parent) = {}
            THEN handles[h].level = ErrorLevel /\ handles[h].context = <<>>
            ELSE handles[h] = BoundLogger(origin[h].parent)

\* C2 as stated: FromContext(ctx) emits as the Logger of the nearest
\* ToContext on ctx's chain; a later ToContext on ctx leaves FromContext(ctx)
\* as it was; with nothing bound the default Logger is at ErrorLevel, so
\* Debug/Info/Warn write nothing and Error writes a record.
C2_AsStated ==
    /\ FromContextStable
    /\ (Called /\ last.entry = "pkg") =>
          IF BoundOn(last.c) # {} THEN EmitsAs(BoundLogger(last.c))
          ELSE /\ (last.fn \in {"Debug", "Info", "Warn"} => ~Wrote)
               /\ (last.fn = "Error" => Wrote)

\* C2 amended: as stated, except that Error through the default Logger
\* writes a record exactly when the global level is at or below Error.
C2_ContextLookup ==
    /\ FromContextStable
    /\ (Called /\ last.entry = "pkg") =>
          IF BoundOn(last.c) # {} THEN EmitsAs(BoundLogger(last.c))
          ELSE /\ (last.fn \in {"Debug", "Info", "Warn"} => ~Wrote)
               /\ (last.fn = "Error" => (Wrote <=> gLevel <= ErrorLevel))

\* A record written through a context that rebinds another Logger than its
\* parent's.
C2_Witness ==
    /\ Called /\ last.entry = "pkg" /\ Wrote
    /\ Cardinality(BoundOn(last.c)) = 2
    /\ \E n \in BoundOn(last.c) : handles[ctxs[n].by] # BoundLogger(last.c)

\* -------------------------------------------------------------- C3

\* The fields attached to a handle by the With calls that led to it, in the
\* order of the calls.
RECURSIVE Attached(_)
Attached(h) ==
    CASE origin[h].op = "With" ->
             Attached(origin[h].parent) \o Pairs(origin[h].kvs)
      [] origin[h].op = "Level" -> Attached(origin[h].parent)
      [] origin[h].op = "New" -> <<>>
      [] OTHER -> handles[h].context

\* C3: every record emitted through a handle carries, after the level
\* field, the fields attached before, then those of each With in call order,
\* then the call's own; on every emission.
C3_FieldsAccumulate ==
    (Called /\ last.h # 0 /\ Wrote) =>
        \A i \in 1..Len(written) :
            SubSeq(written[i].fields, 2,
                   1 + Len(Attached(last.h)) + Len(Pairs(last.kvs)))
                = Attached(last.h) \o Pairs(last.kvs)

\* A record through l.With(F1).With(F2) with F1 # F2.
C3_Witness ==
    /\ Called /\ last.h # 0 /\ Wrote
    /\ origin[last.h].op = "With"
    /\ origin[origin[last.h].parent].op = "With"
    /\ origin[last.h].kvs # origin[origin[last.h].parent].kvs
    /\ Len(Attached(last.h)) = 2

\* -------------------------------------------------------------- C4

\* C4 as stated: no step (With, Level, an output option, New) changes a
\* handle that exists.
C4_AsStated ==
    [][\A h \in H : handles'[h] = handles[h]]_vars

\* C4 amended: With, Level and New leave every existing handle as it was; a
\* handle changes only when an output option is called on that very handle,
\* and then only its destination changes.
C4_Frame ==
    [][\A h \in H :
          \/ handles'[h] = handles[h]
          \/ /\ \E opt \in Options : ApplyOption(h, opt)
             /\ handles'[h].level = handles[h].level
             /\ handles'[h].context = handles[h].context
             /\ \A g \in H \ {h} : handles'[g] = handles[g]]_vars

\* A record through a handle from which another was derived by With: it
\* carries the fields the handle had, and not the derived one's.
C4_Witness ==
    /\ Called /\ last.h # 0 /\ Wrote
    /\ \E h \in H : /\ origin[h].op = "With" /\ origin[h].parent = last.h
                    /\ handles[h].context # handles[last.h].context
    /\ \A i \in 1..Len(written) :
          Len(written[i].fields) = 3 + Len(Attached(last.h))

\* -------------------------------------------------------------- C5

\* The positions of key k in a record's fields.
At(fields, k) == {j \in 1..Len(fields) : fields[j][1] = k}

\* C5: a record has a "stack" field only if an Error call produced it while
\* the stack-trace flag was set; and the record of an Error call made with
\* the flag set and an error that carries a stack has a non-empty "stack"
\* field, attached before its "error" field.
C5_StackOnlyOnError ==
    (Called /\ Wrote) =>
        \A i \in 1..Len(written) :
            LET f == written[i].fields IN
            /\ At(f, "stack") # {} =>
                  last.fn = "Error" /\ stacktraceEnabled
            /\ (last.fn = "Error" /\ stacktraceEnabled
                    /\ last.err = "withStack") =>
                  /\ Cardinality(At(f, "stack")) = 1
                  /\ Cardinality(At(f, "error")) = 1
                  /\ \A j \in At(f, "stack") :
                        f[j][2] # "" /\ \A k \in At(f, "error") : j < k
            /\ (last.fn = "Error" /\ ~stacktraceEnabled) => At(f, "stack") = {}

\* An Error record with a stack, and the caller flag set as well.
C5_Witness ==
    /\ Called /\ Wrote /\ last.fn = "Error" /\ stacktraceEnabled
    /\ callerEnabled /\ last.entry = "pkg"
    /\ At(written[1].fields, "stack") # {}

\* -------------------------------------------------------------- C6

\* The direct call site of the public function: the innermost user frame.
CallSite == last.user[Len(last.user)]

\* C6 as stated: a record has a caller field exactly when the caller flag
\* was set, and the field names the direct call site of the public function
\* called, for the package-level functions and the Logger methods alike.
C6_AsStated ==
    (Called /\ Wrote) =>
        \A i \in 1..Len(written) :
            LET f == written[i].fields IN
            /\ At(f, "caller") # {} <=> callerEnabled
            /\ \A j \in At(f, "caller") : f[j][2] = CallSite

\* The part of C6 the code meets: through the package-level functions.
C6_PackageLevel ==
    (Called /\ Wrote /\ last.entry = "pkg") =>
        \A i \in 1..Len(written) :
            LET f == written[i].fields IN
            /\ At(f, "caller") # {} <=> callerEnabled
            /\ \A j \in At(f, "caller") : f[j][2] = CallSite

\* -------------------------------------------------------------- C7

Parsed == parse.out # <<>>

\* The six names and the level each stands for.
SixNames ==
    { <<<<"d", "e", "b", "u", "g">>, DebugLevel>>,
      <<<<"i", "n", "f", "o">>, InfoLevel>>,
      <<<<"w", "a", "r", "n">>, WarnLevel>>,
      <<<<"e", "r", "r", "o", "r">>, ErrorLevel>>,
      <<<<"f", "a", "t", "a", "l">>, FatalLevel>>,
      <<<<"p", "a", "n", "i", "c">>, PanicLevel>> }

\* C7: an unrecognised string yields an error that wraps the parser's and
\* names the string, with level ErrorLevel; a recognised one yields no error
\* and the parsed level clamped into [DebugLevel, PanicLevel]: each of the
\* six names its own level, "trace" DebugLevel, a name above Panic
\* ("disabled") PanicLevel.
C7_ParseLevel ==
    Parsed =>
        LET r == parse.out[1]
            z == ZlParseLevel(parse.in)
        IN /\ r.err # <<>> <=> z.err # ""
           /\ r.err # <<>> =>
                 /\ r.level = ErrorLevel /\ r.level # 0
                 /\ r.err[1].str = parse.in /\ r.err[1].wraps = z.err
           /\ r.err = <<>> =>
                 /\ r.level \in DebugLevel..PanicLevel
                 /\ (z.level < DebugLevel => r.level = DebugLevel)
                 /\ (z.level > PanicLevel => r.level = PanicLevel)
                 /\ (z.level \in DebugLevel..PanicLevel => r.level = z.level)
           /\ \A p \in SixNames :
                 parse.in = p[1] => r.err = <<>> /\ r.level = p[2]
           /\ parse.in = <<"t", "r", "a", "c", "e">> =>
                 r.err = <<>> /\ r.level = DebugLevel
           /\ parse.in = <<"d", "i", "s", "a", "b", "l", "e", "d">> =>
                 r.err = <<>> /\ r.level = PanicLevel
           /\ parse.in = <<"v", "e", "r", "b", "o", "s", "e">> => r.err # <<>>

\* "trace" was parsed: no error, DebugLevel.
C7_Witness ==
    /\ Parsed /\ parse.in = <<"t", "r", "a", "c", "e">>
    /\ parse.out[1] = [level |-> DebugLevel, err |-> <<>>]

\* -------------------------------------------------------------- C10

\* What a finished call's record shows of each flag.
ShowsStack(g) == \E i \in 1..Len(gor[g].out) : At(gor[g].out[i].fields, "stack") # {}
ShowsCaller(g) == \E i \in 1..Len(gor[g].out) : At(gor[g].out[i].fields, "caller") # {}

\* C10: the flags are process-wide; a call that ran while a flag held one
\* value only annotates by that value; a call racing a store annotates by a
\* value the flag held while the call ran; each flag is loaded at most once
\* per call, the stack flag before the caller flag in Error, and the record
\* follows the loaded values.
C10_AtomicFlags ==
    \A g \in G :
        /\ gor[g].pc # "idle" =>
              /\ stacktraceEnabled \in gor[g].stackSeen
              /\ callerEnabled \in gor[g].callerSeen
        /\ \A v \in BOOLEAN :
              /\ gor[g].stackRead = <<v>> => v \in gor[g].stackSeen
              /\ gor[g].callerRead = <<v>> => v \in gor[g].callerSeen
        /\ gor[g].stackRead # <<>> => gor[g].fn = "Error"
        /\ (gor[g].fn = "Error" /\ gor[g].callerRead # <<>>) =>
              gor[g].stackRead # <<>>
        /\ gor[g].pc = "returned" =>
              /\ gor[g].out # <<>>
              /\ ShowsCaller(g) <=> gor[g].callerRead = <<TRUE>>
              /\ ShowsStack(g) <=> gor[g].stackRead = <<TRUE>>
              /\ ShowsCaller(g) => TRUE \in gor[g].callerSeen
              /\ ~ShowsCaller(g) => FALSE \in gor[g].callerSeen
              /\ ShowsStack(g) => TRUE \in gor[g].stackSeen
              /\ (gor[g].fn = "Error" /\ ~ShowsStack(g)) =>
                    FALSE \in gor[g].stackSeen

\* Two Error calls through different handles, finished, both raced a store
\* to the stack flag, and their records differ in the stack field.
C10_Witness ==
    /\ Len(gor) >= 2
    /\ gor[1].pc = "returned" /\ gor[2].pc = "returned"
    /\ gor[1].fn = "Error" /\ gor[2].fn = "Error" /\ gor[1].h # gor[2].h
    /\ gor[1].stackSeen = BOOLEAN /\ gor[2].stackSeen = BOOLEAN
    /\ ShowsStack(1) /\ ~ShowsStack(2)

====
